---------------------------- MODULE Spec2Model ----------------------------
(***************************************************************************)
(* A model of bioportal_annotator.py: the term loader, the ontology list   *)
(* normalizer, the match classifier get_completeness and the driver        *)
(* annotate_terms.                                                         *)
(*                                                                         *)
(* A Python str is a sequence of one-character strings, so that strip,     *)
(* split, lower, the substring test and the regular expression             *)
(* \b<label>\b are computed character by character.                        *)
(***************************************************************************)
EXTENDS Naturals, Sequences, FiniteSets, TLC

(***************************************************************************)
(* Bounds of the model.                                                    *)
(***************************************************************************)
\* Longest input_term handed to get_completeness in SpecClassify.
MaxTermLen == 4
\* Longest match_label handed to get_completeness in SpecClassify.
MaxLabelLen == 3
\* Most annotations in one response body.
MaxAnnotations == 2

(***************************************************************************)
(* Characters.                                                             *)
(***************************************************************************)
\* str.strip() removes whitespace; the model's only whitespace is the space.
IsSpace(c) == c = " "

\* \w of a str pattern: letters, digits and the underscore.
IsWordChar(c) == c \in {"a", "b", "A", "B", "D", "M", "L", "0", "1", "_"}

\* str.lower() on one character.
ToLower(c) ==
    CASE c = "A" -> "a"
      [] c = "B" -> "b"
      [] c = "D" -> "d"
      [] c = "M" -> "m"
      [] c = "L" -> "l"
      [] OTHER -> c

lower(s) == [k \in 1..Len(s) |-> ToLower(s[k])]

RECURSIVE lstrip(_)
lstrip(s) ==
    IF s = <<>> THEN <<>>
    ELSE IF IsSpace(Head(s)) THEN lstrip(Tail(s))
    ELSE s

RECURSIVE rstrip(_)
rstrip(s) ==
    IF s = <<>> THEN <<>>
    ELSE IF IsSpace(s[Len(s)]) THEN rstrip(SubSeq(s, 1, Len(s) - 1))
    ELSE s

strip(s) == rstrip(lstrip(s))

\* s.split(sep): the pieces between the separators, empty pieces kept.
RECURSIVE split(_, _)
split(s, sep) ==
    IF \A k \in 1..Len(s) : s[k] # sep THEN << s >>
    ELSE LET p == CHOOSE k \in 1..Len(s) :
                      s[k] = sep /\ \A m \in 1..(k - 1) : s[m] # sep
         IN  << SubSeq(s, 1, p - 1) >> \o split(SubSeq(s, p + 1, Len(s)), sep)

NonEmpty(s) == s # <<>>

(***************************************************************************)
(* load_terms, with the file already cut into lines (splitlines).          *)
(***************************************************************************)
\* The bug of testing the raw line instead of the stripped one.
load_terms_unstripped_test(lines) ==
    LET kept == SelectSeq(lines, NonEmpty)
    IN  [k \in 1..Len(kept) |-> strip(kept[k])]

load_terms(lines) ==
    SelectSeq([k \in 1..Len(lines) |-> strip(lines[k])], NonEmpty)

(***************************************************************************)
(* normalize_ontologies                                                    *)
(***************************************************************************)
normalize_ontologies(ontologies) ==
    LET pieces == split(ontologies, ",")
        kept == SelectSeq([k \in 1..Len(pieces) |-> strip(pieces[k])], NonEmpty)
    IN  IF kept = <<>> THEN << <<>> >> ELSE kept

(***************************************************************************)
(* get_completeness                                                        *)
(***************************************************************************)
\* c in s
Contains(s, c) == \E k \in 1..Len(s) : s[k] = c

\* l == t[p : p + len(l)], p counted from 0
OccursAt(l, t, p) ==
    /\ p + Len(l) <= Len(t)
    /\ \A k \in 1..Len(l) : t[p + k] = l[k]

\* l in t
IsSubstring(l, t) == \E p \in 0..Len(t) : OccursAt(l, t, p)

\* \b at offset p of t: exactly one of t[p-1], t[p] is a word character
\* (what lies outside the string is none).
word_boundary(t, p) ==
    LET before == p >= 1 /\ IsWordChar(t[p])
        after == p < Len(t) /\ IsWordChar(t[p + 1])
    IN  before # after

\* The bug of re.match for re.search: the pattern tried at offset 0 only.
re_match_bounded(l, t) ==
    OccursAt(l, t, 0) /\ word_boundary(t, 0) /\ word_boundary(t, Len(l))

\* re.search(rf"\b{re.escape(l)}\b", t): re.escape makes l a literal.
re_search_bounded(l, t) ==
    \E p \in 0..Len(t) :
        OccursAt(l, t, p) /\ word_boundary(t, p) /\ word_boundary(t, p + Len(l))

\* The bug of testing Partial before Component.
get_completeness_partial_first(input_term, match_label) ==
    LET t_norm == lower(input_term)
        l_norm == lower(match_label)
    IN  IF t_norm = l_norm THEN "Complete"
        ELSE IF re_search_bounded(l_norm, t_norm) THEN "Partial"
        ELSE IF Contains(l_norm, " ") /\ IsSubstring(l_norm, t_norm) THEN "Component"
        ELSE ""

\* The bug of leaving out the test for a space in the label.
get_completeness_any_substring(input_term, match_label) ==
    LET t_norm == lower(input_term)
        l_norm == lower(match_label)
    IN  IF t_norm = l_norm THEN "Complete"
        ELSE IF IsSubstring(l_norm, t_norm) THEN "Component"
        ELSE IF re_search_bounded(l_norm, t_norm) THEN "Partial"
        ELSE ""

get_completeness(input_term, match_label) ==
    LET t_norm == lower(input_term)
        l_norm == lower(match_label)
    IN  IF t_norm = l_norm THEN "Complete"
        ELSE IF Contains(l_norm, " ") /\ IsSubstring(l_norm, t_norm) THEN "Component"
        ELSE IF re_search_bounded(l_norm, t_norm) THEN "Partial"
        ELSE ""


(***************************************************************************)
(* The state of one run of annotate_terms, and of one call of              *)
(* get_completeness.                                                       *)
(***************************************************************************)
VARIABLES
    pc,                     \* where the run is
    term_file,              \* the file at term_path: whether it exists, its lines
    ontologies,             \* the ontologies argument
    require_complete_match, \* the require_complete_match argument
    terms,                  \* load_terms(term_path)
    onto_list,              \* normalize_ontologies(ontologies)
    fout,                   \* the output file: "unopened", "open", "closed"
    open_count,             \* how many times out_path was opened
    header,                 \* the header row of the output, <<>> before it is written
    rows,                   \* the rows written after the header, in order
    i,                      \* position of term in terms
    j,                      \* position of ont in onto_list
    response,               \* what the last request came back with
    k,                      \* position of annotation in response.json()
    requests,               \* the requests issued, in order
    stdout,                 \* the lines printed, in order
    error,                  \* the exception that ended the run, "" if none
    input_term,             \* get_completeness's first argument
    match_label,            \* get_completeness's second argument
    result                  \* what get_completeness returned, "unset" before

vars ==
    << pc, term_file, ontologies, require_complete_match, terms, onto_list,
       fout, open_count, header, rows, i, j, response, k, requests, stdout,
       error, input_term, match_label, result >>

(***************************************************************************)
(* The inputs of a run.                                                    *)
(***************************************************************************)
SeqsUpTo(S, n) == UNION { [1..m -> S] : m \in 0..n }

\* The term files: none, one of no line, one of blank lines only, one term
\* with blanks around it, two terms with a blank line between them, the same
\* term twice.
TermFiles ==
    { [exists |-> FALSE, lines |-> <<>>],
      [exists |-> TRUE, lines |-> <<>>],
      [exists |-> TRUE, lines |-> << <<>>, << " " >> >>],
      [exists |-> TRUE, lines |-> << << " ", "a", " " >> >>],
      [exists |-> TRUE, lines |-> << << "a", " ", "b", " ", "a" >>, <<>> >>],
      [exists |-> TRUE,
       lines |-> << << " ", "a" >>, << " " >>, << "a", " ", "b", " ", "a" >> >>],
      [exists |-> TRUE, lines |-> << << "a" >>, << "a", " " >> >>] }

\* The ontologies argument: "", ", ,", " D, M ".
OntologyInputs ==
    { <<>>, << ",", " ", "," >>, << " ", "D", ",", " ", "M", " " >> }

\* The labels the service answers with: "A", "a b".
Labels == { << "A" >>, << "a", " ", "b" >> }

IRIs == { "http://x/1" }

\* What requests.get or raise_for_status raises: all are RequestException.
RequestExceptions == { "ConnectionError", "Timeout", "HTTPError" }

\* An element of the response's array: well formed, or with a part missing.
AnnotationShapes ==
    { "ok", "no_annotations", "empty_annotations", "no_text",
      "no_annotatedClass", "no_id" }

Annotations ==
    { [shape |-> "ok", label |-> l, iri |-> u] : l \in Labels, u \in IRIs }
        \cup { [shape |-> s, label |-> <<>>, iri |-> ""] :
                   s \in AnnotationShapes \ { "ok" } }

\* The arrays of annotations: an element after a malformed one is never
\* read, so a malformed element is the last of its array.
Bodies ==
    { b \in SeqsUpTo(Annotations, MaxAnnotations) :
          \A n \in 1..(Len(b) - 1) : b[n].shape = "ok" }

\* What one request comes back with: an exception, a body that is no JSON, a
\* JSON body that is no array, or an array of annotations.
Responses ==
    { [kind |-> e, body |-> <<>>] : e \in RequestExceptions \cup { "not_json", "not_array" } }
        \cup { [kind |-> "ok", body |-> b] : b \in Bodies }

NoResponse == [kind |-> "none", body |-> <<>>]

Header == << "Term", "Match", "Completeness", "Ontology", "IRI" >>

ALL == << "A", "L", "L" >>

Saved == [line |-> "Results saved", exc |-> "", term |-> <<>>, ontology |-> <<>>]

(***************************************************************************)
(* The pieces of annotate_terms.                                           *)
(***************************************************************************)
\* params: text, and ontologies only when ont is not empty.
request_params(term, ont) ==
    [text |-> term, ontologies |-> IF ont # <<>> THEN << ont >> ELSE <<>>]

\* The bug of catching the transport errors only.
caught_transport_only(exc) == exc \in { "ConnectionError", "Timeout" }

\* except requests.RequestException
caught(exc) == exc \in RequestExceptions

\* print("[WARN]", exc, f"- term={term}", f"ontology={ont or 'ALL'}")
warning(exc, term, ont) ==
    [line |-> "[WARN]", exc |-> exc, term |-> term,
     ontology |-> IF ont # <<>> THEN ont ELSE ALL]

\* The exception response.json() or the for statement raises on a body that
\* is not an array.
body_error(kind) ==
    IF kind = "not_json" THEN "JSONDecodeError" ELSE "TypeError"

\* The exception annotation["annotations"][0]["text"] or
\* annotation["annotatedClass"]["@id"] raises.
shape_error(shape) ==
    IF shape = "empty_annotations" THEN "IndexError" ELSE "KeyError"

\* The bug of writing the uninformative matches too.
keep_row_no_discard(completeness, require) ==
    ~(require /\ completeness # "Complete")

\* The bug of ignoring require_complete_match.
keep_row_ignore_require(completeness, require) ==
    completeness # ""

\* Neither continue is taken.
keep_row(completeness, require) ==
    /\ completeness # ""
    /\ ~(require /\ completeness # "Complete")

output_row(term, label, completeness, ont, iri) ==
    << term, label, completeness, IF ont # <<>> THEN ont ELSE ALL, iri >>

\* The bug of opening the file without a with statement.
with_exit_leak(f) == f

\* Leaving the with block, by its end or by an exception, closes the file.
with_exit(f) == IF f = "open" THEN "closed" ELSE f

\* The bug of the two loops exchanged.
next_pair_scope_major(ti, oj, n, m) ==
    IF ti < n THEN << ti + 1, oj, FALSE >>
    ELSE IF oj < m THEN << 1, oj + 1, FALSE >>
    ELSE << ti, oj, TRUE >>

\* for term in terms: for ont in onto_list: the pair after (ti, oj), and
\* whether the loops are over.
next_pair(ti, oj, n, m) ==
    IF oj < m THEN << ti, oj + 1, FALSE >>
    ELSE IF ti < n THEN << ti + 1, 1, FALSE >>
    ELSE << ti, oj, TRUE >>

\* The end of one iteration of the inner loop, having printed out: the next
\* pair, or the end of the with block and the final print.
Advance(out) ==
    LET np == next_pair(i, j, Len(terms), Len(onto_list))
    IN  /\ i' = np[1]
        /\ j' = np[2]
        /\ IF np[3]
           THEN /\ pc' = "done"
                /\ fout' = with_exit(fout)
                /\ stdout' = Append(out, Saved)
           ELSE /\ pc' = "request"
                /\ fout' = fout
                /\ stdout' = out

\* An exception nothing catches leaves annotate_terms.
Raise(exc) ==
    /\ pc' = "failed"
    /\ error' = exc
    /\ fout' = with_exit(fout)

(***************************************************************************)
(* annotate_terms                                                          *)
(***************************************************************************)
Init ==
    /\ pc = "start"
    /\ term_file \in TermFiles
    /\ ontologies \in OntologyInputs
    /\ require_complete_match \in BOOLEAN
    /\ terms = <<>>
    /\ onto_list = <<>>
    /\ fout = "unopened"
    /\ open_count = 0
    /\ header = <<>>
    /\ rows = <<>>
    /\ i = 1
    /\ j = 1
    /\ response = NoResponse
    /\ k = 1
    /\ requests = <<>>
    /\ stdout = <<>>
    /\ error = ""
    /\ input_term = <<>>
    /\ match_label = <<>>
    /\ result = "unset"

\* From the call to the first iteration: load_terms, the test for no terms,
\* normalize_ontologies, open and the header row.
Start ==
    /\ pc = "start"
    /\ IF ~term_file.exists
       THEN /\ Raise("FileNotFoundError")
            /\ UNCHANGED << terms, onto_list, open_count, header >>
       ELSE /\ terms' = load_terms(term_file.lines)
            /\ IF terms' = <<>>
               THEN /\ Raise("ValueError")
                    /\ UNCHANGED << onto_list, open_count, header >>
               ELSE /\ onto_list' = normalize_ontologies(ontologies)
                    /\ fout' = "open"
                    /\ open_count' = open_count + 1
                    /\ header' = Header
                    /\ pc' = "request"
                    /\ error' = error
    /\ UNCHANGED << term_file, ontologies, require_complete_match, rows, i, j,
                    response, k, requests, stdout, input_term, match_label,
                    result >>

\* One request for the pair (terms[i], onto_list[j]) and what comes back.
Request ==
    /\ pc = "request"
    /\ \E r \in Responses :
        /\ requests' = Append(requests, request_params(terms[i], onto_list[j]))
        /\ response' = r
        /\ k' = 1
        /\ IF r.kind \in RequestExceptions
           THEN IF caught(r.kind)
                THEN /\ Advance(Append(stdout, warning(r.kind, terms[i], onto_list[j])))
                     /\ error' = error
                ELSE /\ Raise(r.kind)
                     /\ UNCHANGED << i, j, stdout >>
           ELSE IF r.kind # "ok"
           THEN /\ Raise(body_error(r.kind))
                /\ UNCHANGED << i, j, stdout >>
           ELSE IF r.body = <<>>
           THEN /\ Advance(stdout)
                /\ error' = error
           ELSE /\ pc' = "rows"
                /\ UNCHANGED << i, j, stdout, fout, error >>
    /\ UNCHANGED << term_file, ontologies, require_complete_match, terms,
                    onto_list, open_count, header, rows, input_term,
                    match_label, result >>

\* One iteration of for annotation in response.json().
ProcessAnnotation ==
    /\ pc = "rows"
    /\ LET annotation == response.body[k]
       IN  IF annotation.shape # "ok"
           THEN /\ Raise(shape_error(annotation.shape))
                /\ UNCHANGED << rows, k, i, j, stdout >>
           ELSE LET label == annotation.label
                    iri == annotation.iri
                    completeness == get_completeness(terms[i], label)
                IN  /\ rows' =
                           IF keep_row(completeness, require_complete_match)
                           THEN Append(rows,
                                       output_row(terms[i], label, completeness,
                                                  onto_list[j], iri))
                           ELSE rows
                    /\ k' = k + 1
                    /\ error' = error
                    /\ IF k < Len(response.body)
                       THEN UNCHANGED << pc, i, j, fout, stdout >>
                       ELSE Advance(stdout)
    /\ UNCHANGED << term_file, ontologies, require_complete_match, terms,
                    onto_list, open_count, header, response, requests,
                    input_term, match_label, result >>

Next ==
    \/ Start
    \/ Request
    \/ ProcessAnnotation

Spec == Init /\ [][Next]_vars

(***************************************************************************)
(* One call of get_completeness, on every pair of strings within the       *)
(* bounds.                                                                 *)
(***************************************************************************)
ClassifyChars == { "a", "A", " ", "-" }

InitClassify ==
    /\ pc = "classify"
    /\ input_term \in SeqsUpTo(ClassifyChars, MaxTermLen)
    /\ match_label \in SeqsUpTo(ClassifyChars, MaxLabelLen)
    /\ result = "unset"
    /\ term_file = [exists |-> FALSE, lines |-> <<>>]
    /\ ontologies = <<>>
    /\ require_complete_match = FALSE
    /\ terms = <<>>
    /\ onto_list = <<>>
    /\ fout = "unopened"
    /\ open_count = 0
    /\ header = <<>>
    /\ rows = <<>>
    /\ i = 1
    /\ j = 1
    /\ response = NoResponse
    /\ k = 1
    /\ requests = <<>>
    /\ stdout = <<>>
    /\ error = ""

Classify ==
    /\ pc = "classify"
    /\ result' = get_completeness(input_term, match_label)
    /\ pc' = "classified"
    /\ UNCHANGED << term_file, ontologies, require_complete_match, terms,
                    onto_list, fout, open_count, header, rows, i, j, response,
                    k, requests, stdout, error, input_term, match_label >>

NextClassify == Classify

SpecClassify == InitClassify /\ [][NextClassify]_vars


(***************************************************************************)
(* What the claims are stated with.  These are written apart from the      *)
(* definitions above: an occurrence is a SubSeq, and a word's edge is told *)
(* by the characters next to the occurrence.                               *)
(***************************************************************************)
Informative == { "Complete", "Component", "Partial" }

\* l occurs in t at offset p (from 0).
LabelAt(l, t, p) ==
    /\ p + Len(l) <= Len(t)
    /\ SubSeq(t, p + 1, p + Len(l)) = l

Occurs(l, t) == \E p \in 0..Len(t) : LabelAt(l, t, p)

\* Two neighbouring characters of l, one of a word and one not.
HasInternalWordBoundary(l) ==
    \E p \in 1..(Len(l) - 1) : IsWordChar(l[p]) # IsWordChar(l[p + 1])

HasSpace(l) == \E p \in 1..Len(l) : l[p] = " "

\* l is several words: it starts and ends with a word character and has a
\* word boundary inside.
MultiWord(l) ==
    /\ l # <<>>
    /\ IsWordChar(l[1])
    /\ IsWordChar(l[Len(l)])
    /\ HasInternalWordBoundary(l)

\* l is one word: word characters only.
SingleWord(l) == l # <<>> /\ \A p \in 1..Len(l) : IsWordChar(l[p])

\* The n characters of t from offset p have a word character next to them.
InsideLongerWord(t, p, n) ==
    \/ p >= 1 /\ IsWordChar(t[p])
    \/ p + n < Len(t) /\ IsWordChar(t[p + n + 1])

\* l, at offset p of t, is a run of whole tokens of t: it starts and ends
\* with a word character and has no word character next to it.
WholeTokensAt(l, t, p) ==
    /\ l # <<>>
    /\ IsWordChar(l[1])
    /\ IsWordChar(l[Len(l)])
    /\ LabelAt(l, t, p)
    /\ ~InsideLongerWord(t, p, Len(l))

\* Every line is empty once trimmed.
AllBlank(lines) ==
    \A n \in 1..Len(lines) : \A m \in 1..Len(lines[n]) : lines[n][m] = " "

ScopeOrAll(ont) == IF ont = <<>> THEN ALL ELSE ont

\* The n-th request of a run that goes term by term, scope by scope.
ExpectedRequest(n) ==
    LET m == Len(onto_list)
        term == terms[((n - 1) \div m) + 1]
        ont == onto_list[((n - 1) % m) + 1]
    IN  [text |-> term, ontologies |-> IF ont = <<>> THEN <<>> ELSE << ont >>]

\* The scope of the n-th request, as a row names it.
ExpectedScope(n) ==
    ScopeOrAll(onto_list[((n - 1) % Len(onto_list)) + 1])

Malformed(r) ==
    \/ r.kind \in { "not_json", "not_array" }
    \/ r.kind = "ok" /\ \E n \in 1..Len(r.body) : r.body[n].shape # "ok"

Called == result # "unset"

TNorm == lower(input_term)

LNorm == lower(match_label)

(***************************************************************************)
(* C1: every row written after the header has a Completeness of Complete,  *)
(* Component or Partial, and the rows only grow by appending: what was     *)
(* written stays as it was written.                                        *)
(***************************************************************************)
C1_RowsInformative ==
    \A n \in 1..Len(rows) : rows[n][3] \in Informative

C1_RowsInformativeAppendOnly ==
    /\ []C1_RowsInformative
    /\ [][/\ Len(rows') >= Len(rows)
          /\ SubSeq(rows', 1, Len(rows)) = rows
          /\ Len(rows') <= Len(rows) + 1]_vars

\* A run still going that has written a Component row, then a Partial row.
C1_Witness ==
    /\ pc = "request"
    /\ Len(rows) >= 2
    /\ rows[1][3] = "Component"
    /\ rows[2][3] = "Partial"

(***************************************************************************)
(* C2: a request that fails with a transport error, a timeout or a         *)
(* non-success status writes no row, prints one warning naming the term    *)
(* and the scope, and the run goes on with the next pair; no such failure  *)
(* ends the run, and a run that ends normally has requested every pair.    *)
(***************************************************************************)
C2_FailureSkipsOnePair ==
    /\ [][(Len(requests') = Len(requests) + 1 /\ response'.kind \in RequestExceptions)
            => /\ rows' = rows
               /\ error' = ""
               /\ Len(stdout') >= Len(stdout) + 1
               /\ stdout'[Len(stdout) + 1].line = "[WARN]"
               /\ stdout'[Len(stdout) + 1].exc = response'.kind
               /\ stdout'[Len(stdout) + 1].term = terms[i]
               /\ stdout'[Len(stdout) + 1].ontology = ScopeOrAll(onto_list[j])
               /\ \/ /\ pc' = "request"
                     /\ << i', j' >> # << i, j >>
                     /\ ExpectedRequest(Len(requests') + 1)
                            = [text |-> terms[i'],
                               ontologies |-> IF onto_list[j'] = <<>>
                                              THEN <<>> ELSE << onto_list[j'] >>]
                  \/ /\ pc' = "done"
                     /\ Len(requests') = Len(terms) * Len(onto_list)]_vars
    /\ [](error \notin RequestExceptions)
    /\ [](pc = "done" => Len(requests) = Len(terms) * Len(onto_list))

\* One term, two scopes: the request for the first scope failed, and the
\* run ended with a row of the second scope.
C2_Witness ==
    /\ pc = "done"
    /\ Len(requests) = 2
    /\ Len(stdout) = 2
    /\ stdout[1].line = "[WARN]"
    /\ stdout[1].exc = "Timeout"
    /\ stdout[1].ontology = onto_list[1]
    /\ rows # <<>>
    /\ rows[1][4] = onto_list[2]

(***************************************************************************)
(* C3: a response of a malformed shape (a body that is not the JSON array, *)
(* an element without annotations, text, annotatedClass or @id) is a       *)
(* failure of its pair only: the run does not end with an exception.       *)
(***************************************************************************)
C3_MalformedIsPairFailure ==
    Malformed(response) => pc # "failed"

(***************************************************************************)
(* C4: an annotation is written as exactly one row (term, label,           *)
(* completeness, scope or ALL, IRI) if and only if its completeness is not *)
(* the uninformative one and require_complete_match is off or the          *)
(* completeness is Complete; otherwise nothing is written for it.  With    *)
(* require_complete_match every row is Complete.                           *)
(***************************************************************************)
C4_RowIffQualifies ==
    /\ [][(pc = "rows" /\ response.body[k].shape = "ok")
            => LET a == response.body[k]
                   c == get_completeness(terms[i], a.label)
               IN  IF c \in Informative /\ (~require_complete_match \/ c = "Complete")
                   THEN rows' = rows \o << << terms[i], a.label, c,
                                              ScopeOrAll(onto_list[j]), a.iri >> >>
                   ELSE rows' = rows]_vars
    /\ [](require_complete_match =>
              \A n \in 1..Len(rows) : rows[n][3] = "Complete")

\* With require_complete_match and two terms: the Complete match of the
\* first is the only row, the Partial and the Component match of the second
\* are left out.
C4_Witness ==
    /\ require_complete_match
    /\ pc = "done"
    /\ Len(requests) = 2
    /\ Len(terms) = 2
    /\ Len(response.body) = 2
    /\ get_completeness(terms[2], response.body[1].label) = "Partial"
    /\ get_completeness(terms[2], response.body[2].label) = "Component"
    /\ rows = << << terms[1], << "A" >>, "Complete", ALL, "http://x/1" >> >>

(***************************************************************************)
(* C5: when the term file exists and every line of it is blank once        *)
(* trimmed, the run fails with the empty-input error and has issued no     *)
(* request and has not opened the output.                                  *)
(***************************************************************************)
C5_EmptyInputFailsFirst ==
    (term_file.exists /\ AllBlank(term_file.lines) /\ pc # "start")
        => /\ pc = "failed"
           /\ error = "ValueError"
           /\ requests = <<>>
           /\ open_count = 0
           /\ fout = "unopened"
           /\ header = <<>>
           /\ rows = <<>>

\* A file of two lines, one of them a space, has failed the run.
C5_Witness ==
    /\ term_file.exists
    /\ Len(term_file.lines) = 2
    /\ \E n \in 1..2 : term_file.lines[n] = << " " >>
    /\ AllBlank(term_file.lines)
    /\ pc = "failed"

(***************************************************************************)
(* C6 as claimed: a label of several words (a word character at each end,   *)
(* a word boundary inside) that is a substring of the term (case ignored)  *)
(* and not the term is Component.                                          *)
(***************************************************************************)
C6_AsClaimed ==
    (/\ Called
     /\ MultiWord(match_label)
     /\ Occurs(LNorm, TNorm)
     /\ LNorm # TNorm)
        => result = "Component"

(***************************************************************************)
(* C6: a label with a space in it that is a substring of the term (case    *)
(* ignored) and not the term is Component.                                 *)
(***************************************************************************)
C6_SpacedSubstringIsComponent ==
    (/\ Called
     /\ HasSpace(match_label)
     /\ Occurs(LNorm, TNorm)
     /\ LNorm # TNorm)
        => result = "Component"

\* A label of two words, in another case than the term's, was classified.
C6_Witness ==
    /\ Called
    /\ match_label = << "A", " ", "a" >>
    /\ input_term = << "a", " ", "a", " " >>
    /\ result = "Component"

(***************************************************************************)
(* C7: a label of one word that is not the term and whose every occurrence *)
(* in the term (case ignored) has a word character next to it is           *)
(* uninformative: the result is the empty string.                          *)
(***************************************************************************)
C7_InsideWordIsUninformative ==
    (/\ Called
     /\ SingleWord(match_label)
     /\ LNorm # TNorm
     /\ \A p \in 0..Len(TNorm) :
            LabelAt(LNorm, TNorm, p) => InsideLongerWord(TNorm, p, Len(LNorm)))
        => result = ""

\* "A" in "aa -": the label occurs, inside a longer word only.
C7_Witness ==
    /\ Called
    /\ match_label = << "A" >>
    /\ input_term = << "a", "a", " ", "-" >>
    /\ Occurs(LNorm, TNorm)
    /\ result = ""

(***************************************************************************)
(* C8: a label that occurs in the term (case ignored) as whole tokens, is  *)
(* not the term and does not qualify as Component, is Partial.             *)
(***************************************************************************)
C8_WholeTokensIsPartial ==
    (/\ Called
     /\ \E p \in 0..Len(TNorm) : WholeTokensAt(LNorm, TNorm, p)
     /\ LNorm # TNorm
     /\ ~HasSpace(LNorm))
        => result = "Partial"

\* "A" in "aa a": the only whole-token occurrence is the last one.
C8_Witness ==
    /\ Called
    /\ match_label = << "A" >>
    /\ input_term = << "a", "a", " ", "a" >>
    /\ result = "Partial"

(***************************************************************************)
(* C9: the requests are issued term by term and, for each term, scope by   *)
(* scope, each pair once; a run that ends normally has issued them all; a  *)
(* request is issued only when the response before it is used up, and a    *)
(* row is written for the pair of the last request only.                   *)
(***************************************************************************)
C9_RequestsInOrder ==
    /\ Len(requests) <= Len(terms) * Len(onto_list)
    /\ \A n \in 1..Len(requests) : requests[n] = ExpectedRequest(n)
    /\ pc = "done" => Len(requests) = Len(terms) * Len(onto_list)

C9_TermMajorSequential ==
    /\ []C9_RequestsInOrder
    /\ [][requests' # requests
            => /\ requests' = Append(requests, ExpectedRequest(Len(requests) + 1))
               /\ response.kind = "ok" => k = Len(response.body) + 1]_vars
    /\ [][rows' # rows
            => /\ requests' = requests
               /\ rows'[Len(rows')][1] = ExpectedRequest(Len(requests)).text
               /\ rows'[Len(rows')][4] = ExpectedScope(Len(requests))]_vars

\* Two different terms and two scopes, all four requests issued, one failed.
C9_Witness ==
    /\ pc = "done"
    /\ Len(terms) = 2
    /\ terms[1] # terms[2]
    /\ Len(onto_list) = 2
    /\ Len(requests) = 4
    /\ \E n \in 1..Len(stdout) : stdout[n].line = "[WARN]"
    /\ rows # <<>>

(***************************************************************************)
(* C10: the output is opened at most once, after the terms are found not   *)
(* empty, with the header written; it is open while the run goes and       *)
(* closed when the run has ended, normally or by an exception; the step    *)
(* that ends the run by an exception leaves the header and the rows as     *)
(* they were.                                                              *)
(***************************************************************************)
C10_OpenedOnceClosedAtExit ==
    /\ open_count <= 1
    /\ fout = "unopened" <=> open_count = 0
    /\ fout = "unopened" => header = <<>> /\ rows = <<>>
    /\ open_count = 1 => terms # <<>> /\ header = Header
    /\ pc \in { "request", "rows" } => fout = "open"
    /\ pc = "done" => fout = "closed"
    /\ pc = "failed" => fout # "open"

C10_SinkLifecycle ==
    /\ []C10_OpenedOnceClosedAtExit
    /\ [][pc' = "failed" => rows' = rows /\ header' = header]_vars
    /\ [][open_count' # open_count => pc = "start" /\ rows' = <<>>]_vars

\* The second annotation of a body is malformed: the run has ended with the
\* row of the first one in the closed file.
C10_Witness ==
    /\ pc = "failed"
    /\ error \in { "KeyError", "IndexError" }
    /\ k = 2
    /\ Len(rows) >= 1
    /\ header = Header
    /\ fout = "closed"

=============================================================================
